---- MODULE Spec2Model ----
(***************************************************************************)
(* A model of rich_dataframe.DataFramePrettify: the constructor's          *)
(* windowing of the DataFrame and one invocation of prettify() on the      *)
(* freshly constructed object, one step per loop iteration of each phase.  *)
(* Widths are in terminal cells, sleeps in milliseconds.                   *)
(***************************************************************************)
EXTENDS Integers, Sequences, FiniteSets, TLC

\* ------------------------------------------------------------ bounds
MaxRows == 2
MaxCols == 2
MaxLimit == 1
WidthSpread == 2

\* ------------------------------------------------- program constants
BEAT_TIME == 4
COLORS == <<"cyan", "magenta", "red", "green", "blue", "purple">>
BOXES_Reordered == <<"MINIMAL", "SIMPLE_HEAD", "SIMPLE", "SQUARE">>
\* The list of line 117.
BOXES == <<"MINIMAL", "SIMPLE", "SIMPLE_HEAD", "SQUARE">>
DEFAULT_ROW_LIMIT == 20
DEFAULT_COL_LIMIT == 10
DEFAULT_DELAY_TIME == 5
WIDTH_PIVOT == 90
WIDTH_STEP == 2
None == "None"
\* table.width is None (the renderer chooses) or one number: <<>> or <<w>>.
Auto == <<>>
Fixed(w) == <<w>>

\* --------------------------------------------------- python helpers
Min(a, b) == IF a < b THEN a ELSE b
Max(a, b) == IF a > b THEN a ELSE b

\* Python's normalisation of a slice bound n for a sequence of length len.
SliceIndex(n, len) == IF n < 0 THEN Max(n + len, 0) ELSE Min(n, len)

\* s[:n]
SliceTo(s, n) == SubSeq(s, 1, SliceIndex(n, Len(s)))

\* s[n:]
SliceFrom(s, n) == SubSeq(s, SliceIndex(n, Len(s)) + 1, Len(s))

\* s[:limit], as written at lines 67, 72 and 90.
FirstN(s, limit) == SliceTo(s, limit)

LastN_NoWrap(s, limit) == SliceFrom(s, Len(s) - limit)
\* s[-limit:], as written at lines 69, 74 and 92 (-0 is 0: the whole of s).
LastN(s, limit) == SliceFrom(s, 0 - limit)

\* str(item), for the integer cell values the model draws.
Str(item) == ToString(item)

InRange_Inclusive(x, stop, step) == IF step > 0 THEN x <= stop ELSE x >= stop
\* x in range(start, stop, step) once x = start + n * step.
InRange(x, stop, step) == IF step > 0 THEN x < stop ELSE x > stop

\* s[k] of a Python list: the subscript is valid from -len to len - 1.
IndexOK(s, k) == (0 - Len(s)) <= k /\ k < Len(s)
GetItem(s, k) == IF k < 0 THEN s[Len(s) + k + 1] ELSE s[k + 1]

\* ------------------------------------------------------- the inputs
ColName(j) == "c" \o ToString(j)
\* The cell of row rr, column cc (1-based) of the input frame.
CellValue(rr, cc) == (10 * rr) + cc - 12
FrameColumns(nc) == [j \in 1..nc |-> ColName(j)]
FrameValues(nr, nc) == [rr \in 1..nr |-> [cc \in 1..nc |-> CellValue(rr, cc)]]

RowCounts == 0..MaxRows
ColCounts == (0..MaxCols) \cup {Len(COLORS) + 1}
RowLimits == (0..MaxLimit) \cup {DEFAULT_ROW_LIMIT}
ColLimits == (0..MaxLimit) \cup {DEFAULT_COL_LIMIT}
DelayTimes == {DEFAULT_DELAY_TIME}
Widths == (WIDTH_PIVOT - WidthSpread)..(WIDTH_PIVOT + WidthSpread)

VARIABLES
    df_columns, df_values,
    row_limit, col_limit, first_rows, first_cols, delay_time,
    columns, rows, num_colors,
    table,
    pc, i,
    original_width, console_width, width_ranges, range_idx, width,
    lastOp, slept, boxLog, widthLog

config == <<df_columns, df_values, row_limit, col_limit, first_rows,
            first_cols, delay_time, columns, rows, num_colors>>
widthVars == <<original_width, console_width, width_ranges, range_idx,
               width, widthLog>>
vars == <<config, table, pc, i, widthVars, lastOp, slept, boxLog>>

\* Table(show_footer=False): no columns, no rows, rich's default attributes.
EmptyTable ==
    [columns |-> <<>>, rows |-> <<>>, box |-> "HEAVY_HEAD",
     border_style |-> None, width |-> Auto, caption |-> None]

\* table.add_column(col): a column with rich's default attributes.
NewColumn(col) ==
    [header |-> col, justify |-> "left", header_style |-> "", style |-> ""]

Init ==
    /\ \E nr \in RowCounts, nc \in ColCounts :
          /\ df_columns = FrameColumns(nc)
          /\ df_values = FrameValues(nr, nc)
    /\ row_limit \in RowLimits
    /\ col_limit \in ColLimits
    /\ first_rows \in BOOLEAN
    /\ first_cols \in BOOLEAN
    /\ delay_time \in DelayTimes
    /\ num_colors = Len(COLORS)
    /\ columns = IF first_cols THEN FirstN(df_columns, col_limit)
                               ELSE LastN(df_columns, col_limit)
    /\ rows = IF first_rows THEN FirstN(df_values, row_limit)
                            ELSE LastN(df_values, row_limit)
    /\ table = EmptyTable
    /\ pc = "add_columns"
    /\ i = 0
    /\ original_width = 0
    /\ console_width = 0
    /\ width_ranges = <<>>
    /\ range_idx = 0
    /\ width = 0
    /\ lastOp = "none"
    /\ slept = 0
    /\ boxLog = <<>>
    /\ widthLog = <<>>

beat_Unit(length) == BEAT_TIME
\* time.sleep(length * BEAT_TIME) on leaving a beat() block.
beat(length) == length * BEAT_TIME

NextPhase_Swapped(p) ==
    CASE p = "add_columns" -> "add_rows"
      [] p = "add_rows" -> "move_text_to_right"
      [] p = "move_text_to_right" -> "add_style"
      [] p = "add_style" -> "add_random_color"
      [] p = "add_random_color" -> "adjust_box"
      [] p = "adjust_box" -> "adjust_border_color"
      [] p = "adjust_border_color" -> "change_width"
      [] p = "change_width" -> "add_caption"
      [] OTHER -> "done"
\* The order of the calls in prettify().
NextPhase(p) ==
    CASE p = "add_columns" -> "add_rows"
      [] p = "add_rows" -> "move_text_to_right"
      [] p = "move_text_to_right" -> "add_random_color"
      [] p = "add_random_color" -> "add_style"
      [] p = "add_style" -> "adjust_box"
      [] p = "adjust_box" -> "adjust_border_color"
      [] p = "adjust_border_color" -> "change_width"
      [] p = "change_width" -> "add_caption"
      [] OTHER -> "done"

\* A for loop is exhausted: the method returns and prettify() calls the next.
Return ==
    /\ pc' = NextPhase(pc)
    /\ i' = 0
    /\ lastOp' = "none"
    /\ slept' = 0

add_columns ==
    /\ pc = "add_columns"
    /\ IF i < Len(columns)
       THEN /\ table' = [table EXCEPT
                   !.columns = Append(@, NewColumn(columns[i + 1]))]
            /\ i' = i + 1
            /\ lastOp' = "add_column"
            /\ slept' = beat(delay_time)
            /\ pc' = pc
       ELSE Return /\ UNCHANGED table
    /\ UNCHANGED <<config, widthVars, boxLog>>

\* Lines 89-94: the row re-sliced like the columns, each item passed to str.
RowCells(row) ==
    LET sliced == IF first_cols THEN FirstN(row, col_limit)
                                ELSE LastN(row, col_limit)
    IN [j \in 1..Len(sliced) |-> Str(sliced[j])]

add_rows ==
    /\ pc = "add_rows"
    /\ IF i < Len(rows)
       THEN /\ table' = [table EXCEPT
                   !.rows = Append(@, RowCells(rows[i + 1]))]
            /\ i' = i + 1
            /\ lastOp' = "add_row"
            /\ slept' = beat(delay_time)
            /\ pc' = pc
       ELSE Return /\ UNCHANGED table
    /\ UNCHANGED <<config, widthVars, boxLog>>

move_text_to_right ==
    /\ pc = "move_text_to_right"
    /\ IF i < Len(table.columns)
       THEN /\ table' = [table EXCEPT !.columns[i + 1].justify = "right"]
            /\ i' = i + 1
            /\ lastOp' = "justify"
            /\ slept' = beat(delay_time)
            /\ pc' = pc
       ELSE Return /\ UNCHANGED table
    /\ UNCHANGED <<config, widthVars, boxLog>>

ColorIndex_NoWrap(idx) == idx
ColorIndex_Shifted(idx) == (idx + 1) % num_colors
\* The subscript i % self.num_colors of lines 105-106 and 113.
ColorIndex(idx) == idx % num_colors

\* An IndexError leaves the beat() block before its sleep and ends prettify().
Raise ==
    /\ pc' = "error"
    /\ lastOp' = "none"
    /\ slept' = 0
    /\ UNCHANGED <<table, i>>

add_random_color ==
    /\ pc = "add_random_color"
    /\ IF i < Len(table.columns)
       THEN IF IndexOK(COLORS, ColorIndex(i))
            THEN /\ table' = [table EXCEPT !.columns[i + 1].header_style =
                                      GetItem(COLORS, ColorIndex(i))]
                 /\ i' = i + 1
                 /\ lastOp' = "header_style"
                 /\ slept' = beat(delay_time)
                 /\ pc' = pc
            ELSE Raise
       ELSE Return /\ UNCHANGED table
    /\ UNCHANGED <<config, widthVars, boxLog>>

add_style ==
    /\ pc = "add_style"
    /\ IF i < Len(table.columns)
       THEN IF IndexOK(COLORS, ColorIndex(i))
            THEN /\ table' = [table EXCEPT !.columns[i + 1].style =
                                      "bold " \o GetItem(COLORS, ColorIndex(i))]
                 /\ i' = i + 1
                 /\ lastOp' = "style"
                 /\ slept' = beat(delay_time)
                 /\ pc' = pc
            ELSE Raise
       ELSE Return /\ UNCHANGED table
    /\ UNCHANGED <<config, widthVars, boxLog>>

adjust_box ==
    /\ pc = "adjust_box"
    /\ IF i < Len(BOXES)
       THEN /\ table' = [table EXCEPT !.box = BOXES[i + 1]]
            /\ boxLog' = Append(boxLog, BOXES[i + 1])
            /\ i' = i + 1
            /\ lastOp' = "box"
            /\ slept' = beat(delay_time)
            /\ pc' = pc
       ELSE Return /\ UNCHANGED <<table, boxLog>>
    /\ UNCHANGED <<config, widthVars>>

\* One assignment outside any beat() block, then the method returns.
adjust_border_color ==
    /\ pc = "adjust_border_color"
    /\ table' = [table EXCEPT !.border_style = "bright_yellow"]
    /\ pc' = NextPhase(pc)
    /\ i' = 0
    /\ lastOp' = "border_style"
    /\ slept' = 0
    /\ UNCHANGED <<config, widthVars, boxLog>>

\* The list width_ranges of lines 130-135, each entry <<start, stop, step>>.
WidthRanges(ow, cw) ==
    << <<ow, cw, WIDTH_STEP>>,
       <<cw, ow, 0 - WIDTH_STEP>>,
       <<ow, WIDTH_PIVOT, 0 - WIDTH_STEP>>,
       <<WIDTH_PIVOT, ow + 1, WIDTH_STEP>> >>

\* Lines 129-135: the table is measured once and the terminal width read;
\* both are values of the environment. The two reads of console.width in
\* one list display (lines 131-132) are taken to see the same terminal.
measure_width ==
    /\ pc = "change_width"
    /\ range_idx = 0
    /\ \E ow \in Widths, cw \in Widths :
          /\ original_width' = ow
          /\ console_width' = cw
          /\ width_ranges' = WidthRanges(ow, cw)
          /\ width' = ow
    /\ range_idx' = 1
    /\ widthLog' = widthLog
    /\ lastOp' = "none"
    /\ slept' = 0
    /\ UNCHANGED <<config, table, pc, i, boxLog>>

\* The inner loop of lines 138-140: one width of the current range.
width_tick ==
    /\ pc = "change_width"
    /\ range_idx \in 1..Len(width_ranges)
    /\ InRange(width, width_ranges[range_idx][2], width_ranges[range_idx][3])
    /\ table' = [table EXCEPT !.width = Fixed(width)]
    /\ width' = width + width_ranges[range_idx][3]
    /\ widthLog' = Append(widthLog, Fixed(width))
    /\ lastOp' = "width"
    /\ slept' = beat(1)
    /\ UNCHANGED <<config, pc, i, original_width, console_width,
                   width_ranges, range_idx, boxLog>>

\* Lines 142-143: the current range is exhausted, the width goes back to None.
width_reset ==
    /\ pc = "change_width"
    /\ range_idx \in 1..Len(width_ranges)
    /\ ~InRange(width, width_ranges[range_idx][2], width_ranges[range_idx][3])
    /\ table' = [table EXCEPT !.width = Auto]
    /\ range_idx' = range_idx + 1
    /\ width' = IF range_idx < Len(width_ranges)
                THEN width_ranges[range_idx + 1][1] ELSE 0
    /\ widthLog' = Append(widthLog, Auto)
    /\ lastOp' = "width_reset"
    /\ slept' = beat(1)
    /\ UNCHANGED <<config, pc, i, original_width, console_width,
                   width_ranges, boxLog>>

\* The outer loop of line 137 is exhausted.
width_return ==
    /\ pc = "change_width"
    /\ range_idx > Len(width_ranges)
    /\ Return
    /\ UNCHANGED <<config, table, widthVars, boxLog>>

\* The three f-strings of lines 147, 149 and 151.
Captions(rl, cl) ==
    << "Only " \o ToString(rl) \o " rows and " \o ToString(cl)
         \o " columns is shown here.",
       "Only [bold green] " \o ToString(rl) \o " rows[/bold green] and [bold red]"
         \o ToString(cl) \o " columns[/bold red] is shown here.",
       "Only [bold magenta not dim] " \o ToString(rl)
         \o " rows[/bold magenta not dim] and [bold green not dim]"
         \o ToString(cl) \o " columns[/bold green not dim] are shown here." >>

add_caption ==
    /\ pc = "add_caption"
    /\ IF i < Len(Captions(row_limit, col_limit))
       THEN /\ table' = [table EXCEPT
                   !.caption = Captions(row_limit, col_limit)[i + 1]]
            /\ i' = i + 1
            /\ lastOp' = "caption"
            /\ slept' = beat(delay_time)
            /\ pc' = pc
       ELSE Return /\ UNCHANGED table
    /\ UNCHANGED <<config, widthVars, boxLog>>

Next ==
    \/ add_columns
    \/ add_rows
    \/ move_text_to_right
    \/ add_random_color
    \/ add_style
    \/ adjust_box
    \/ adjust_border_color
    \/ measure_width
    \/ width_tick
    \/ width_reset
    \/ width_return
    \/ add_caption

Spec == Init /\ [][Next]_vars

\* prettify() runs on one thread: whenever a step is possible it is taken.
FairSpec == Spec /\ WF_vars(Next)

\* ===================================================== the claims
nRows == Len(df_values)
nCols == Len(df_columns)
Headers == [j \in 1..Len(table.columns) |-> table.columns[j].header]
Returned == pc = "done"

\* The first k and the last k of 1..n, in order, for a count k >= 0.
HeadIdx(n, k) == [j \in 1..Min(k, n) |-> j]
TailIdx(n, k) == [j \in 1..Min(k, n) |-> n - Min(k, n) + j]
SelectedColIdx ==
    IF first_cols THEN HeadIdx(nCols, col_limit) ELSE TailIdx(nCols, col_limit)
SelectedRowIdx ==
    IF first_rows THEN HeadIdx(nRows, row_limit) ELSE TailIdx(nRows, row_limit)

\* C1: the Table returned by prettify() on a fresh object has
\* min(col_limit, total columns) columns and min(row_limit, total rows) rows,
\* for a frame with at least one column and one row.
C1_Counts ==
    (Returned /\ nCols >= 1 /\ nRows >= 1) =>
        /\ Len(table.columns) = Min(col_limit, nCols)
        /\ Len(table.rows) = Min(row_limit, nRows)

\* C2: the headers of the returned Table are the first col_limit column
\* names when first_cols is true, the last col_limit column names when it is
\* false, in the frame's order.
C2_Headers ==
    Returned =>
        Headers = [j \in 1..Len(SelectedColIdx) |-> df_columns[SelectedColIdx[j]]]

\* C3: the rows of the returned Table are the first or last row_limit rows
\* by first_rows, each with as many cells as the Table has columns, cell j of
\* row i being the text of the frame's value at the i-th selected row and the
\* j-th selected column.
C3_Rows ==
    Returned =>
        /\ \A n \in 1..Len(table.rows) :
              Len(table.rows[n]) = Len(table.columns)
        /\ table.rows =
              [n \in 1..Len(SelectedRowIdx) |->
                 [j \in 1..Len(SelectedColIdx) |->
                    ToString(df_values[SelectedRowIdx[n]][SelectedColIdx[j]])]]

\* C4: with an empty frame or a limit greater than the available count no
\* error state is reached, the run is never stuck before it returns, and a
\* limit greater than the available count selects all the columns or rows.
C4_Case == nCols = 0 \/ nRows = 0 \/ col_limit > nCols \/ row_limit > nRows
C4_Graceful ==
    C4_Case =>
        /\ pc # "error"
        /\ Returned \/ ENABLED Next
        /\ (Returned /\ col_limit > nCols) => Headers = df_columns
        /\ (Returned /\ row_limit > nRows) => Len(table.rows) = nRows
C4_Witness ==
    /\ Returned
    /\ nRows = 0
    /\ nCols = Len(COLORS) + 1
    /\ col_limit > nCols
    /\ ~first_cols
    /\ Headers = df_columns

\* C5: the returned Table has every column right-justified, column i (from
\* 0) with header color ColorCycle[i mod 6] and body style bold + that color,
\* the square box, the bright_yellow border, width auto and the third
\* caption, whatever the frame, the configuration and the two widths.
C5_ColorCycle == <<"cyan", "magenta", "red", "green", "blue", "purple">>
C5_FinalCaption ==
    "Only [bold magenta not dim] " \o ToString(row_limit)
      \o " rows[/bold magenta not dim] and [bold green not dim]"
      \o ToString(col_limit) \o " columns[/bold green not dim] are shown here."
C5_FinalState ==
    Returned =>
        /\ \A j \in 1..Len(table.columns) :
              /\ table.columns[j].justify = "right"
              /\ table.columns[j].header_style = C5_ColorCycle[((j - 1) % 6) + 1]
              /\ table.columns[j].style =
                    "bold " \o C5_ColorCycle[((j - 1) % 6) + 1]
        /\ table.box = "SQUARE"
        /\ table.border_style = "bright_yellow"
        /\ table.width = Auto
        /\ table.caption = C5_FinalCaption
C5_Witness ==
    /\ Returned
    /\ Len(table.columns) = 7
    /\ table.columns[7].header_style = "cyan"
    /\ original_width # console_width

\* C6: the widths assigned during the width animation are those of the four
\* half-open ranges [ow, cw) step 2, [cw, ow) step -2, [ow, 90) step -2 and
\* [90, ow + 1) step 2, in this order, each range followed by one reset to
\* auto (also an empty one), so that the width is auto afterwards; ow is
\* measured before the first assignment.
C6_Count(start, stop, step) ==
    IF step > 0
    THEN (IF stop > start THEN (stop - start + step - 1) \div step ELSE 0)
    ELSE (IF start > stop THEN (start - stop - step - 1) \div (0 - step) ELSE 0)
C6_Range(start, stop, step) ==
    [n \in 1..C6_Count(start, stop, step) |-> <<start + ((n - 1) * step)>>]
C6_Expected(ow, cw) ==
    C6_Range(ow, cw, 2) \o << <<>> >> \o
    C6_Range(cw, ow, 0 - 2) \o << <<>> >> \o
    C6_Range(ow, 90, 0 - 2) \o << <<>> >> \o
    C6_Range(90, ow + 1, 2) \o << <<>> >>
C6_IsPrefix(s, t) == Len(s) <= Len(t) /\ s = SubSeq(t, 1, Len(s))
C6_Before(x, stop, step) == IF step > 0 THEN x < stop ELSE x > stop
C6_WidthSequence ==
    /\ (range_idx = 0) => (widthLog = <<>> /\ table.width = Auto)
    /\ (range_idx >= 1) =>
          /\ C6_IsPrefix(widthLog, C6_Expected(original_width, console_width))
          /\ table.width = (IF widthLog = <<>> THEN Auto
                            ELSE widthLog[Len(widthLog)])
    /\ (lastOp = "width") =>
          C6_Before(table.width[1], width_ranges[range_idx][2],
                    width_ranges[range_idx][3])
    /\ (pc \in {"add_caption", "done"}) =>
          /\ widthLog = C6_Expected(original_width, console_width)
          /\ Cardinality({n \in 1..Len(widthLog) : widthLog[n] = <<>>}) = 4
          /\ table.width = Auto
C6_Witness ==
    /\ Returned
    /\ original_width = 88
    /\ console_width = 91
    /\ widthLog = << <<88>>, <<90>>, <<>>, <<91>>, <<89>>, <<>>, <<>>, <<>> >>

\* C7: prettify() runs its phases in one fixed order, none skipped, repeated
\* or interleaved; each phase changes only its own attribute of the Table and
\* ends only when its loop has covered every column (or row, box, caption);
\* after the add-rows phase the headers and the cells never change.
C7_Order ==
    <<"add_columns", "add_rows", "move_text_to_right", "add_random_color",
      "add_style", "adjust_box", "adjust_border_color", "change_width",
      "add_caption", "done">>
C7_Pos(p) == CHOOSE n \in 1..Len(C7_Order) : C7_Order[n] = p
C7_TableFields == {"columns", "rows", "box", "border_style", "width", "caption"}
C7_ColumnFields == {"header", "justify", "header_style", "style"}
C7_OnlyField(f) == \A g \in C7_TableFields \ {f} : table'[g] = table[g]
C7_OnlyColumnField(f) ==
    /\ C7_OnlyField("columns")
    /\ Len(table'.columns) = Len(table.columns)
    /\ \A j \in 1..Len(table.columns) : \A g \in C7_ColumnFields \ {f} :
          table'.columns[j][g] = table.columns[j][g]
C7_Complete(p) ==
    CASE p = "add_columns" -> Headers = columns /\ table.rows = <<>>
      [] p = "add_rows" -> Len(table.rows) = Len(rows)
      [] p = "move_text_to_right" ->
            \A j \in 1..Len(table.columns) : table.columns[j].justify = "right"
      [] p = "add_random_color" ->
            \A j \in 1..Len(table.columns) : table.columns[j].header_style # ""
      [] p = "add_style" ->
            \A j \in 1..Len(table.columns) : table.columns[j].style # ""
      [] p = "adjust_box" -> table.box = "SQUARE"
      [] p = "adjust_border_color" -> table'.border_style = "bright_yellow"
      [] p = "change_width" -> Len(widthLog) >= 4 /\ table.caption = None
      [] p = "add_caption" -> table.caption # None
      [] OTHER -> FALSE
C7_Step ==
    /\ pc \in {C7_Order[n] : n \in 1..Len(C7_Order)}
    /\ pc' \in {C7_Order[n] : n \in 1..Len(C7_Order)}
    /\ \/ pc' = pc
       \/ /\ C7_Pos(pc') = C7_Pos(pc) + 1
          /\ C7_Complete(pc)
    /\ CASE pc = "add_columns" -> C7_OnlyField("columns")
         [] pc = "add_rows" -> C7_OnlyField("rows")
         [] pc = "move_text_to_right" -> C7_OnlyColumnField("justify")
         [] pc = "add_random_color" -> C7_OnlyColumnField("header_style")
         [] pc = "add_style" -> C7_OnlyColumnField("style")
         [] pc = "adjust_box" -> C7_OnlyField("box")
         [] pc = "adjust_border_color" -> C7_OnlyField("border_style")
         [] pc = "change_width" -> C7_OnlyField("width")
         [] pc = "add_caption" -> C7_OnlyField("caption")
         [] OTHER -> table' = table
    /\ (C7_Pos(pc) > 2) =>
          /\ [j \in 1..Len(table'.columns) |-> table'.columns[j].header] = Headers
          /\ table'.rows = table.rows
C7_LinearOrder == [][C7_Step]_vars
C7_Witness ==
    /\ Returned
    /\ Len(table.columns) = 2
    /\ Len(table.rows) = 2
    /\ Len(widthLog) > 4

\* C8: the box is assigned exactly four times, MINIMAL, SIMPLE, SIMPLE_HEAD,
\* SQUARE in this order, each assignment followed by a pause of delay_time
\* beats, and stays SQUARE from the last assignment until prettify() returns.
C8_Boxes == <<"MINIMAL", "SIMPLE", "SIMPLE_HEAD", "SQUARE">>
C8_BoxCycle ==
    /\ Len(boxLog) <= 4
    /\ boxLog = SubSeq(C8_Boxes, 1, Len(boxLog))
    /\ (boxLog # <<>>) => table.box = boxLog[Len(boxLog)]
    /\ (lastOp = "box") => slept = delay_time * 4
    /\ (C7_Pos(pc) < C7_Pos("adjust_box")) => boxLog = <<>>
    /\ (C7_Pos(pc) > C7_Pos("adjust_box")) =>
          (boxLog = C8_Boxes /\ table.box = "SQUARE")
C8_Witness ==
    /\ Returned
    /\ boxLog = C8_Boxes
    /\ table.box = "SQUARE"
    /\ delay_time = 5

\* C9 as stated: every mutation of the Table is followed by a sleep, of
\* delay_time beats for the column, row, justification, header color, body
\* style, box and caption steps and of 1 beat for a width tick or reset, and
\* no sleep occurs elsewhere.
C9_DelayOps ==
    {"add_column", "add_row", "justify", "header_style", "style", "box",
     "caption"}
C9_WidthOps == {"width", "width_reset"}
C9_EveryMutationSleeps ==
    /\ (lastOp \in C9_DelayOps) => slept = delay_time * 4
    /\ (lastOp \in C9_WidthOps) => slept = 4
    /\ (lastOp = "none") => slept = 0
    /\ (lastOp # "none") => slept > 0

\* C9 as amended: the same, but the assignment of the border color is
\* followed by no sleep before the first width assignment.
C9_PacedExceptBorder ==
    /\ (lastOp \in C9_DelayOps) => slept = delay_time * 4
    /\ (lastOp \in C9_WidthOps) => slept = 4
    /\ (lastOp = "none") => slept = 0
    /\ (lastOp = "border_style") => slept = 0
    /\ lastOp \in C9_DelayOps \cup C9_WidthOps \cup {"none", "border_style"}
C9_Witness ==
    /\ lastOp = "width"
    /\ slept = 4
    /\ delay_time = 5
    /\ table.border_style = "bright_yellow"

\* C10: for every frame, configuration and pair of widths prettify()
\* eventually returns.
C10_Returns == <>Returned
C10_Witness ==
    /\ Returned
    /\ original_width > console_width
    /\ original_width < 90
    /\ Len(table.columns) = 7
====
